---- MODULE Spec2Model ----
(***************************************************************************)
(* A model of rust-lsystem: the HashMapRules rule table, the LSystem       *)
(* value, the SimpleProcessor and ChunksProcessor rewriters, the           *)
(* SimpleInterpreter and the worker thread of view.rs.                     *)
(*                                                                         *)
(* Rust values are modelled as follows.                                    *)
(*   Vec<S>, &[S]      a sequence of symbols                               *)
(*   Option<T>         None, Some(v)                                       *)
(*   Result<T, String> Ok(v), Err(e); a String is a sequence of lines      *)
(*   usize             0 .. UsizeMax, the checked operations return None   *)
(*                     when the exact result does not fit                  *)
(*   a panic           Panic(message): the thread unwinds, nothing is      *)
(*                     returned                                            *)
(*   an abort          Abort(message): the process ends                    *)
(*                                                                         *)
(*   u64               0 .. U64Max; a + 1 at U64Max panics in a build that *)
(*                     checks integer overflow and gives 0 in one that     *)
(*                     does not                                            *)
(*                                                                         *)
(* Memory.  The buffers of the vectors are counted: those of the symbols   *)
(* and commands produced and that of the slots of ChunksProcessor.  A call *)
(* of iterate or interpret can obtain AllocMax bytes in all, what its      *)
(* caller holds not being counted.  A buffer is obtained by                *)
(* Vec::with_capacity, or by push and extend when the capacity is used up: *)
(* the capacity is then doubled at least.  The request panics when the     *)
(* size exceeds isize::MAX and the process is aborted when the bytes the   *)
(* call holds and the bytes it asks for exceed AllocMax; a buffer that     *)
(* grows is extended where it is.  shrink_to_fit gives back the capacity   *)
(* that is not used.  Strings, boxes and the nodes of the channels are     *)
(* taken to fit the memory.                                                *)
(***************************************************************************)
EXTENDS Integers, Sequences, FiniteSets, TLC

(***************************************************************************)
(* Bounds of the model.                                                    *)
(***************************************************************************)
\* number of HashMapRules::set calls made while a table is built
MaxSets == 2
\* length of the longest production handed to set
MaxProdLen == 2
\* length of the longest axiom
MaxAxiomLen == 2
\* number of iterate calls a driver makes
MaxIter == 2
\* longest state a driver still hands to a processor
MaxLen == 5
\* largest chunk_size and max_tasks handed to ChunksProcessor::new
MaxChunkSize == 3
MaxTasks == 2

\* width in bits of the platform size type usize, scaled down from 16, 32 or 64
UsizeBits == 9
UsizeMax == (2 ^ UsizeBits) - 1
\* isize::MAX, the largest size in bytes of an allocation
IsizeMax == (2 ^ (UsizeBits - 1)) - 1
\* the number of bytes the allocator grants to a call in all: the memory of
\* the machine, scaled down like usize
AllocMax == 3 * (2 ^ (UsizeBits - 3))
\* size_of::<S>() for a symbol type of one byte, and size_of::<TurtleCommand>()
SizeOfSymbol == 1
SizeOfTurtleCommand == 8
\* size_of::<Vec<S>>(): a pointer and two usize, of two bytes each
SizeOfVec == 3 * ((UsizeBits + 7) \div 8)
\* width in bits of u64, the type of the iteration of an LSystem, scaled down
\* from 64
U64Bits == 4
U64Max == (2 ^ U64Bits) - 1

\* the build: TRUE when it checks integer overflow (debug), FALSE when
\* integers wrap (release)
VARIABLE overflow_checks

Symbols == {"A", "B"}

(***************************************************************************)
(* Option and Result.                                                      *)
(***************************************************************************)
None == [some |-> FALSE]
Some(v) == [some |-> TRUE, val |-> v]
Ok(v) == [ok |-> TRUE, val |-> v]
Err(e) == [ok |-> FALSE, err |-> e]
\* the call does not return: the thread panics, or the process is aborted
Panic(why) == [ok |-> FALSE, panic |-> why]
Abort(why) == [ok |-> FALSE, abort |-> why]
Panics(r) == "panic" \in DOMAIN r
Aborts(r) == "abort" \in DOMAIN r
\* the call returns, Ok or Err
Returns(r) == ~Panics(r) /\ ~Aborts(r)

\* checked_mul as a wrapping multiplication
wrapping_mul(a, b) == Some((a * b) % (2 ^ UsizeBits))
\* usize::checked_mul
checked_mul(a, b) == IF a * b > UsizeMax THEN None ELSE Some(a * b)
\* checked_add on integers two bits narrower than usize
checked_add_narrow(a, b) == IF a + b > UsizeMax \div 4 THEN None ELSE Some(a + b)
\* usize::checked_add
checked_add(a, b) == IF a + b > UsizeMax THEN None ELSE Some(a + b)

\* a + b on u64
u64_add(a, b) ==
    IF a + b <= U64Max THEN Ok(a + b)
    ELSE IF overflow_checks THEN Panic(<<"attempt to add with overflow">>)
    ELSE Ok((a + b) % (2 ^ U64Bits))

Max(a, b) == IF a >= b THEN a ELSE b

\* let value = ...; body: body applied to value, which is computed once
LetIn(value, body(_)) == CHOOSE r \in {body(v) : v \in {value}} : TRUE

\* Vec::with_capacity(capacity) for elements of elem_size bytes, in a call
\* that holds held bytes: it panics when the size in bytes exceeds
\* isize::MAX, the process is aborted when the allocator cannot grant the
\* bytes, and nothing is allocated for no byte
VecWithCapacity(held, capacity, elem_size) ==
    LET bytes == capacity * elem_size
    IN IF bytes > IsizeMax THEN Panic(<<"capacity overflow">>)
       ELSE IF held + bytes > AllocMax THEN Abort(<<"memory allocation failed">>)
       ELSE Ok(capacity)

\* RawVec::MIN_NON_ZERO_CAP
MinNonZeroCap(elem_size) ==
    IF elem_size = 1 THEN 8 ELSE IF elem_size <= 1024 THEN 4 ELSE 1

\* Vec::reserve(additional) on a Vec of len elements and of the given
\* capacity, as push and extend call it, in a call that holds held bytes
\* besides the buffer of the Vec: the new capacity.  The buffer grows when
\* the spare capacity is too small, to twice the capacity at least.
VecReserve(held, capacity, len, additional, elem_size) ==
    IF capacity - len >= additional THEN Ok(capacity)
    ELSE LET cap == Max(Max(2 * capacity, len + additional), MinNonZeroCap(elem_size))
             bytes == cap * elem_size
         IN IF bytes > IsizeMax THEN Panic(<<"capacity overflow">>)
            ELSE IF held + bytes > AllocMax
            THEN Abort(<<"memory allocation failed">>)
            ELSE Ok(cap)

(***************************************************************************)
(* interpret.rs: TurtleCommand.                                            *)
(***************************************************************************)
AdvanceBy(d) == [kind |-> "AdvanceBy", arg |-> d]
RotateBy(a) == [kind |-> "RotateBy", arg |-> a]
PushState == [kind |-> "PushState", arg |-> 0]
PopState == [kind |-> "PopState", arg |-> 0]
TurtleNone == [kind |-> "None", arg |-> 0]

(***************************************************************************)
(* rules.rs: HashMapRules.  The HashMap is a function from the symbols     *)
(* that have a rule to SymbolRule(production, interpretation).             *)
(***************************************************************************)
SymbolRule(production, interpretation) ==
    [production |-> production, interpretation |-> interpretation]

HashMapRulesNew == [rules |-> [s \in {} |-> 0], biggest_expansion |-> 0]

\* set leaving the rule of a symbol that has one as it is
HashMapRulesSetKeepOld(self, symbol, prod, interp) ==
    LET production_len == Len(prod)
        modified == symbol \in DOMAIN self.rules
        inserted == [s \in DOMAIN self.rules \cup {symbol} |->
                        IF s \in DOMAIN self.rules THEN self.rules[s]
                        ELSE SymbolRule(prod, interp)]
    IN [self |-> [rules |-> inserted,
                  biggest_expansion |->
                      IF production_len > self.biggest_expansion
                      THEN production_len ELSE self.biggest_expansion],
        modified |-> modified]

\* set recording the length of the production it was given last
HashMapRulesSetLast(self, symbol, prod, interp) ==
    LET production_len == Len(prod)
        modified == symbol \in DOMAIN self.rules
        inserted == [s \in DOMAIN self.rules \cup {symbol} |->
                        IF s = symbol THEN SymbolRule(prod, interp)
                        ELSE self.rules[s]]
    IN [self |-> [rules |-> inserted, biggest_expansion |-> production_len],
        modified |-> modified]

\* set: the table after the call and the returned flag
HashMapRulesSet(self, symbol, prod, interp) ==
    LET production_len == Len(prod)
        modified == symbol \in DOMAIN self.rules
        inserted == [s \in DOMAIN self.rules \cup {symbol} |->
                        IF s = symbol THEN SymbolRule(prod, interp)
                        ELSE self.rules[s]]
    IN [self |-> [rules |-> inserted,
                  biggest_expansion |->
                      IF production_len > self.biggest_expansion
                      THEN production_len ELSE self.biggest_expansion],
        modified |-> modified]

production(self, symbol) ==
    IF symbol \in DOMAIN self.rules
    THEN Some(self.rules[symbol].production) ELSE None

interpretation(self, symbol) ==
    IF symbol \in DOMAIN self.rules
    THEN Some(self.rules[symbol].interpretation) ELSE None

biggest_expansion(self) == self.biggest_expansion

(***************************************************************************)
(* state.rs: LSystem.                                                      *)
(***************************************************************************)
LSystemNew(axiom, rules, iteration) ==
    [rules |-> rules,
     iteration |-> IF iteration.some THEN iteration.val ELSE 0,
     state |-> axiom]

(***************************************************************************)
(* process/mod.rs: SimpleProcessor.                                        *)
(***************************************************************************)
\* iterate_slice up to Vec::with_capacity, in a call that holds held bytes:
\* the capacity of result
iterate_slice_reserve(held, state, rules) ==
    LET size_factor == biggest_expansion(rules)
        result_size == checked_mul(Len(state), size_factor)
    IN IF ~result_size.some
       THEN Err(<<"SimpleProcessor::iterate_slice : usize overflow when computing new Vec size">>)
       ELSE VecWithCapacity(held, result_size.val, SizeOfSymbol)

\* the for loop of iterate_slice over state[i..], appending to result, whose
\* buffer has the given capacity
RECURSIVE ExtendLoop(_, _, _, _, _, _)
ExtendLoop(held, state, rules, i, result, capacity) ==
    IF i > Len(state) THEN Ok(result)
    ELSE LET p == production(rules, state[i])
             symbols == IF p.some THEN p.val ELSE <<state[i]>>
         IN LetIn(VecReserve(held, capacity, Len(result), Len(symbols), SizeOfSymbol),
                  LAMBDA grown :
                      IF ~grown.ok THEN grown
                      ELSE ExtendLoop(held, state, rules, i + 1, result \o symbols,
                                      grown.val))

\* the for loop of iterate_slice over state[i..], up to the turn in which the
\* buffer of result grows, or to its end: the index of the next symbol,
\* result and the capacity of its buffer
RECURSIVE ExtendToGrowth(_, _, _, _, _, _)
ExtendToGrowth(held, state, rules, i, result, capacity) ==
    IF i > Len(state) THEN Ok([i |-> i, result |-> result, capacity |-> capacity])
    ELSE LET p == production(rules, state[i])
             symbols == IF p.some THEN p.val ELSE <<state[i]>>
         IN LetIn(VecReserve(held, capacity, Len(result), Len(symbols), SizeOfSymbol),
                  LAMBDA grown :
                      IF ~grown.ok THEN grown
                      ELSE IF grown.val # capacity
                      THEN Ok([i |-> i + 1, result |-> result \o symbols,
                               capacity |-> grown.val])
                      ELSE ExtendToGrowth(held, state, rules, i + 1, result \o symbols,
                                          capacity))

\* iterate_slice from the for loop on: result after shrink_to_fit
iterate_slice_fill(held, state, rules, capacity) ==
    ExtendLoop(held, state, rules, 1, <<>>, capacity)

\* iterate_slice in a call that holds held bytes
iterate_slice(held, state, rules) ==
    LET result == iterate_slice_reserve(held, state, rules)
    IN IF ~result.ok THEN result
       ELSE iterate_slice_fill(held, state, rules, result.val)

\* SimpleProcessorIterate giving the new generation the iteration of the old
SimpleProcessorIterateSameIteration(lsystem) ==
    LET rules == lsystem.rules
        new_state == iterate_slice(0, lsystem.state, rules)
    IN IF ~new_state.ok THEN new_state
       ELSE Ok(LSystemNew(new_state.val, rules, Some(lsystem.iteration)))

SimpleProcessorIterate(lsystem) ==
    LET rules == lsystem.rules
        new_state == iterate_slice(0, lsystem.state, rules)
        iteration == u64_add(lsystem.iteration, 1)
    IN IF ~new_state.ok THEN new_state
       ELSE IF ~iteration.ok THEN iteration
       ELSE Ok(LSystemNew(new_state.val, rules, Some(iteration.val)))

(***************************************************************************)
(* process/chunks.rs: ChunksProcessor.                                     *)
(***************************************************************************)
\* ChunksProcessorNew without the check of chunks_size
ChunksProcessorNewAnySize(max_tasks, chunks_size) ==
    IF max_tasks = 0
    THEN Err(<<"ChunksProcessor::new : invalid maximum tasks number (0)">>)
    ELSE Ok([kind |-> "ChunksProcessor", chunk_size |-> chunks_size,
             max_tasks |-> max_tasks])

ChunksProcessorNew(max_tasks, chunks_size) ==
    IF max_tasks = 0
    THEN Err(<<"ChunksProcessor::new : invalid maximum tasks number (0)">>)
    ELSE IF chunks_size = 0
    THEN Err(<<"ChunksProcessor::new : invalid chunks size (0)">>)
    ELSE Ok([kind |-> "ChunksProcessor", chunk_size |-> chunks_size,
             max_tasks |-> max_tasks])

\* chunks_number without the chunk of the remainder
ChunksNumberFloor(state_len, chunk_size) == state_len \div chunk_size

\* chunks_number as iterate computes it
ChunksNumber(state_len, chunk_size) ==
    LET rem == state_len % chunk_size
    IN (state_len \div chunk_size) + (IF rem = 0 THEN 0 ELSE 1)

\* chunks that leaves out the remainder of the state
ChunkExact(state, chunk_size, n) ==
    IF (n + 1) * chunk_size > Len(state) THEN <<>>
    ELSE SubSeq(state, n * chunk_size + 1, (n + 1) * chunk_size)

\* the n-th element (from 0) of state.chunks(chunk_size)
Chunk(state, chunk_size, n) ==
    LET from == n * chunk_size + 1
        upto == IF (n + 1) * chunk_size < Len(state)
                THEN (n + 1) * chunk_size ELSE Len(state)
    IN SubSeq(state, from, upto)

\* the for loop of the set-up from its n-th turn on, vec.push(Vec::new()):
\* the capacity of vec
RECURSIVE PushLoop(_, _, _)
PushLoop(chunks_number, n, capacity) ==
    IF n >= chunks_number THEN Ok(capacity)
    ELSE LetIn(VecReserve(0, capacity, n, 1, SizeOfVec),
               LAMBDA grown :
                   IF ~grown.ok THEN grown
                   ELSE PushLoop(chunks_number, n + 1, grown.val))

\* the number of elements of the Vecs data[0], ..., data[n - 1]
RECURSIVE SumLen(_, _)
SumLen(data, n) == IF n = 0 THEN 0 ELSE Len(data[n - 1]) + SumLen(data, n - 1)

\* a closure that is not in the for loop of iterate_slice
NoSlice == [i |-> 0, capacity |-> 0]

\* The call of iterate while it is in pool.for_, as a record:
\*   task         chunk index -> "todo", "allocated" (the closure is in
\*                iterate_slice and holds the buffer of result), "running"
\*                (the closure has its result), "done" (it has stored it),
\*                "panicked" (it has unwound)
\*   task_slice   chunk index -> where an allocated closure is in the for
\*                loop of iterate_slice: the index in the chunk of the next
\*                symbol and the capacity of the buffer of result
\*   task_result  chunk index -> result, of iterate_slice in an allocated
\*                closure and of the closure when it is running
\*   sub_states   the slots, chunk index -> Vec
\*   errors       the errors String, a sequence of lines
\*   out          Some(outcome) once the call has ended
PoolStart(chunks_number) ==
    [task |-> [n \in 0 .. chunks_number - 1 |-> "todo"],
     task_slice |-> [n \in 0 .. chunks_number - 1 |-> NoSlice],
     task_result |-> [n \in 0 .. chunks_number - 1 |-> <<>>],
     sub_states |-> [n \in 0 .. chunks_number - 1 |-> <<>>],
     errors |-> <<>>,
     out |-> None]

\* the capacity of the buffers of result the closures of the chunks
\* 0, ..., n - 1 hold in iterate_slice
RECURSIVE Allocated(_, _)
Allocated(p, n) ==
    IF n = 0 THEN 0
    ELSE (IF p.task[n - 1] = "allocated" THEN p.task_slice[n - 1].capacity ELSE 0)
            + Allocated(p, n - 1)

\* the results iterate_slice has returned to the closures, after
\* shrink_to_fit
Returned(p) ==
    [n \in DOMAIN p.task |-> IF p.task[n] = "running" THEN p.task_result[n] ELSE <<>>]

\* the bytes the call holds: the buffer of vec, the slots and what the
\* closures hold
PoolHeld(self, lsystem, p) ==
    LET chunks_number == ChunksNumber(Len(lsystem.state), self.chunk_size)
    IN PushLoop(chunks_number, 0, 0).val * SizeOfVec
          + (Allocated(p, chunks_number)
                + SumLen(Returned(p), chunks_number)
                + SumLen(p.sub_states, chunks_number)) * SizeOfSymbol

\* the closure given to pool.for_ on chunk n, up to Vec::with_capacity in
\* iterate_slice.  When iterate_slice returns an error the closure has its
\* result, Vec::new(): format!("{}\n{}", errors, why) puts an empty line
\* before the first message.  The closure unwinds when Vec::with_capacity
\* panics and the process ends when it aborts.
ClosureAllocate(self, lsystem, p, n) ==
    LET chunk == Chunk(lsystem.state, self.chunk_size, n)
        r == iterate_slice_reserve(PoolHeld(self, lsystem, p), chunk, lsystem.rules)
    IN IF r.ok THEN [p EXCEPT !.task[n] = "allocated",
                              !.task_slice[n] = [i |-> 1, capacity |-> r.val]]
       ELSE IF Panics(r) THEN [p EXCEPT !.task[n] = "panicked"]
       ELSE IF Aborts(r) THEN [p EXCEPT !.out = Some(r)]
       ELSE [p EXCEPT !.task[n] = "running",
                      !.errors = (IF @ = <<>> THEN <<"">> ELSE @) \o r.err]

\* the closure on chunk n goes on in the for loop of iterate_slice: to the
\* turn in which the buffer of result grows, which the closure then holds,
\* or, when the buffer holds all that is left, to the return of
\* iterate_slice, result shrunk to fit
ClosureFill(self, lsystem, p, n) ==
    LET chunk == Chunk(lsystem.state, self.chunk_size, n)
        at == p.task_slice[n]
        r == ExtendToGrowth(PoolHeld(self, lsystem, p) - at.capacity * SizeOfSymbol,
                            chunk, lsystem.rules, at.i, p.task_result[n], at.capacity)
    IN IF r.ok
       THEN IF r.val.capacity # at.capacity
            THEN [p EXCEPT !.task_result[n] = r.val.result,
                           !.task_slice[n] = [i |-> r.val.i, capacity |-> r.val.capacity]]
            ELSE [p EXCEPT !.task[n] = "running",
                           !.task_result[n] = r.val.result,
                           !.task_slice[n] = NoSlice]
       ELSE IF Panics(r) THEN [p EXCEPT !.task[n] = "panicked",
                                        !.task_result[n] = <<>>,
                                        !.task_slice[n] = NoSlice]
       ELSE [p EXCEPT !.out = Some(r)]

\* the closure on chunk n: chunk_data[n] = result
ClosureStore(p, n) ==
    [p EXCEPT !.sub_states[n] = p.task_result[n],
              !.task_result[n] = <<>>,
              !.task[n] = "done"]

\* the final assembling loop from slot n on, in a call that holds held bytes
\* besides the buffer of new_state, which has the given capacity
RECURSIVE AssembleLoop(_, _, _, _, _, _, _)
AssembleLoop(held, data, chunks_number, n, new_state_size, new_state, capacity) ==
    IF n >= chunks_number THEN Ok(new_state)
    ELSE LET chunk_iterated == data[n]
         IN LetIn(checked_add(new_state_size, Len(chunk_iterated)), LAMBDA size :
            IF ~size.some
            THEN Err(<<"ChunksProcessor::iterate : usize overflow, state too big for for Vec">>)
            ELSE LetIn(VecReserve(held, capacity, Len(new_state), Len(chunk_iterated),
                                  SizeOfSymbol),
                       LAMBDA grown :
                           IF ~grown.ok THEN grown
                           ELSE AssembleLoop(held, data, chunks_number, n + 1, size.val,
                                            new_state \o chunk_iterated, grown.val)))

\* iterate after pool.for_ has returned: error handling and final assembling,
\* the slots and vec being held
ChunksFinish(lsystem, chunks_number, errors, data) ==
    IF errors # <<>>
    THEN Err(<<"ChunksProcessor : iteration error(s):">> \o errors)
    ELSE LET held == PushLoop(chunks_number, 0, 0).val * SizeOfVec
                        + SumLen(data, chunks_number) * SizeOfSymbol
             new_state == AssembleLoop(held, data, chunks_number, 0, 0, <<>>, 0)
             iteration == u64_add(lsystem.iteration, 1)
         IN IF ~new_state.ok THEN new_state
            ELSE IF ~iteration.ok THEN iteration
            ELSE Ok(LSystemNew(new_state.val, lsystem.rules, Some(iteration.val)))

\* the closures that are in progress
Active(p) == {n \in DOMAIN p.task : p.task[n] \in {"allocated", "running"}}

\* pool.for_ returns when every closure is done, and iterate goes on to its
\* end.  When a closure has panicked pool.for_ panics in its turn, once no
\* closure is in progress any more; how many of the remaining chunks it
\* hands out before it does so is not specified.
PoolJoin(lsystem, p) ==
    IF \E n \in DOMAIN p.task : p.task[n] = "panicked"
    THEN [p EXCEPT !.out = Some(Panic(<<"capacity overflow">>))]
    ELSE [p EXCEPT !.out = Some(ChunksFinish(lsystem, Cardinality(DOMAIN p.task),
                                             p.errors, p.sub_states))]

\* the steps the call can take in pool.for_: a pool thread takes a chunk, a
\* closure goes on, pool.for_ returns
PoolSteps(self, lsystem, p) ==
    IF p.out.some THEN {}
    ELSE {ClosureAllocate(self, lsystem, p, n) :
              n \in {m \in DOMAIN p.task :
                        p.task[m] = "todo" /\ Cardinality(Active(p)) < self.max_tasks}}
         \cup {ClosureFill(self, lsystem, p, n) :
                  n \in {m \in DOMAIN p.task : p.task[m] = "allocated"}}
         \cup {ClosureStore(p, n) : n \in {m \in DOMAIN p.task : p.task[m] = "running"}}
         \cup (IF /\ Active(p) = {}
                  /\ \/ \A n \in DOMAIN p.task : p.task[n] = "done"
                     \/ \E n \in DOMAIN p.task : p.task[n] = "panicked"
               THEN {PoolJoin(lsystem, p)} ELSE {})

\* what the call can come to from the records of frontier, seen being the
\* records already found
RECURSIVE PoolReach(_, _, _, _)
PoolReach(self, lsystem, frontier, seen) ==
    IF frontier = {} THEN seen
    ELSE LetIn(UNION {PoolSteps(self, lsystem, p) : p \in frontier} \ seen,
               LAMBDA next : PoolReach(self, lsystem, next, seen \cup next))

\* ChunksProcessor::iterate as one call: the outcomes the schedules of the
\* pool give
ChunksProcessorIterate(self, lsystem) ==
    LET state_len == Len(lsystem.state)
        chunks_number == ChunksNumber(state_len, self.chunk_size)
        vec == PushLoop(chunks_number, 0, 0)
        start == PoolStart(chunks_number)
    IN IF state_len = 0 THEN {Err(<<"cannot iterate an empty state">>)}
       ELSE IF ~vec.ok THEN {vec}
       ELSE {p.out.val : p \in {q \in PoolReach(self, lsystem, {start}, {start}) :
                                   q.out.some}}

(***************************************************************************)
(* interpret.rs: SimpleInterpreter.                                        *)
(***************************************************************************)
\* InterpretLoop with TurtleCommand::None pushed like any other command
RECURSIVE InterpretLoopKeepNone(_, _, _, _)
InterpretLoopKeepNone(state, rules, i, commands) ==
    IF i > Len(state) THEN commands
    ELSE LET c == interpretation(rules, state[i])
         IN InterpretLoopKeepNone(state, rules, i + 1,
                                  IF c.some THEN Append(commands, c.val)
                                  ELSE commands)

\* the for loop of interpret over state[i..], pushing to commands
RECURSIVE InterpretLoop(_, _, _, _)
InterpretLoop(state, rules, i, commands) ==
    IF i > Len(state) THEN commands
    ELSE LET c == interpretation(rules, state[i])
         IN InterpretLoop(state, rules, i + 1,
                          IF c.some /\ c.val # TurtleNone
                          THEN Append(commands, c.val) ELSE commands)

SimpleInterpreterInterpret(lsystem) ==
    LET commands == VecWithCapacity(0, Len(lsystem.state), SizeOfTurtleCommand)
    IN IF ~commands.ok THEN commands
       ELSE Ok(InterpretLoop(lsystem.state, lsystem.rules, 1, <<>>))

(***************************************************************************)
(* view.rs: the messages and the trait objects the worker is started with. *)
(***************************************************************************)
LoadLSystem(axiom, rules) == [type |-> "LoadLSystem", axiom |-> axiom, rules |-> rules]
ResetLSystem == [type |-> "ResetLSystem"]
Iterate == [type |-> "Iterate"]
Interpret == [type |-> "Interpret"]
Terminate == [type |-> "Terminate"]

LoadingFinished == [type |-> "LoadingFinished"]
ResettingFinised == [type |-> "ResettingFinised"]
IterationFinished(n) == [type |-> "IterationFinished", iteration |-> n]
InterpretationFinished(v) == [type |-> "InterpretationFinished", commands |-> v]
Terminated == [type |-> "Terminated"]
Error(why) == [type |-> "Error", why |-> why]

from_command(msg) ==
    CASE msg.type = "LoadLSystem" -> LoadingFinished
      [] msg.type = "ResetLSystem" -> ResettingFinised
      [] msg.type = "Iterate" -> IterationFinished(0)
      [] msg.type = "Interpret" -> InterpretationFinished(<<>>)
      [] msg.type = "Terminate" -> Terminated

same_type(self, other) == self.type = other.type

\* Box<LProcessor>: the processors of process/; the outcomes of iterate
SimpleProcessor == [kind |-> "SimpleProcessor"]
LProcessorIterate(self, lsystem) ==
    IF self.kind = "SimpleProcessor" THEN {SimpleProcessorIterate(lsystem)}
    ELSE ChunksProcessorIterate(self, lsystem)

\* Box<LInterpreter>: SimpleInterpreter, and an implementation of the trait
\* whose interpret returns Err
SimpleInterpreter == [kind |-> "SimpleInterpreter"]
FailingInterpreter == [kind |-> "FailingInterpreter"]
LInterpreterInterpret(self, lsystem) ==
    IF self.kind = "SimpleInterpreter" THEN SimpleInterpreterInterpret(lsystem)
    ELSE Err(<<"interpretation failed">>)

(***************************************************************************)
(* Inputs.                                                                 *)
(***************************************************************************)
SeqsUpTo(S, n) == UNION {[1 .. k -> S] : k \in 0 .. n}
\* the longest production the memory holds: two of them exceed isize::MAX,
\* three of them do not fit a usize
HugeProduction == [i \in 1 .. AllocMax |-> "A"]
\* a production such that the memory holds two but not three of them,
\* three of them being smaller than isize::MAX and four of them not
BulkLen == 70
BulkProduction == [i \in 1 .. BulkLen |-> "A"]
Productions == SeqsUpTo(Symbols, MaxProdLen)
Axioms == SeqsUpTo(Symbols, MaxAxiomLen)
\* the interpretation given to set by the rewriting drivers
SetInterpretations == {TurtleNone}

(***************************************************************************)
(* The state.                                                              *)
(*                                                                         *)
(* A rewriting driver (the tests of process/, bin/main.rs) builds a rule   *)
(* table, creates an LSystem from an axiom and calls iterate repeatedly;   *)
(* it is run here twice, with a SimpleProcessor and with a                 *)
(* ChunksProcessor, side by side: each run goes on by itself, whatever     *)
(* becomes of the other.                                                   *)
(***************************************************************************)
VARIABLES
    phase,            \* "build": the table is being filled, "run": iterating
    lsystem_rules,    \* the HashMapRules the driver fills
    nsets,            \* number of set calls made
    set_calls,        \* history: the symbol and production given to each set
                      \* call and the flag it returned, kept while the table
                      \* is being filled
    simple_lsystem,   \* the driver's lsystem iterated by SimpleProcessor
    simple_out,       \* Option: what SimpleProcessor::iterate returned
    chunks_processor, \* Result of ChunksProcessor::new
    new_args,         \* history: the arguments given to ChunksProcessor::new
    chunks_lsystem,   \* the driver's lsystem iterated by ChunksProcessor
    chunks_out,       \* Option: what ChunksProcessor::iterate returned
    cpc,              \* ChunksProcessor::iterate: "idle", "pool" (in
                      \* pool.for_) or "aborted" (the process has ended)
    sub_states,       \* the slots, chunk index -> Vec
    errors,           \* the errors String, a sequence of lines
    task,             \* chunk index -> "todo", "allocated", "running",
                      \* "done", "panicked"
    task_slice,       \* chunk index -> index and capacity of an allocated task
    task_result,      \* chunk index -> local result of a task
    completed         \* the chunk indices in the order their tasks finished

\* The worker thread of view.rs and the viewer that commands it.
VARIABLES
    status,           \* the worker thread: "not started", "running",
                      \* "terminated" (left 'main), "panicked", "aborted"
                      \* (the process has ended, the viewer with it)
    wpc,              \* worker_loop: "recv" (at try_recv), "handle" (in the
                      \* match), "exited" (the thread has returned or
                      \* unwound, its ends of the channels are dropped)
    message_from_ui,  \* the command try_recv returned
    rx,               \* the channel of commands, viewer -> worker
    tx,               \* every event sent on the channel worker -> viewer
    axiom,            \* Option<Vec<S>>
    rules,            \* Option<RulesValue<S>>
    lsystem,          \* Option<LSystem<S>>
    processor,        \* the LProcessor the worker was started with
    interpreter,      \* the LInterpreter the worker was started with
    script,           \* the commands a scripted viewer has still to send
    sent,             \* history: every command sent, in order
    nrecv,            \* history: number of commands try_recv has returned
    reply_to,         \* history: for each event the number of the command
                      \* the worker was handling when it sent it
    calls,            \* history: number of calls of processor.iterate and
                      \* interpreter.interpret
    app               \* Application::command_and_wait: where the viewer is
                      \* in its call, the command it sent, the number of
                      \* events it has received, the responses it returned

worker_vars == <<status, wpc, message_from_ui, rx, tx, axiom, rules, lsystem,
                 processor, interpreter, script, sent, nrecv, reply_to, calls, app>>

rewrite_vars == <<phase, lsystem_rules, nsets, set_calls, simple_lsystem, simple_out,
                  chunks_processor, new_args, chunks_lsystem, chunks_out>>
pool_vars == <<cpc, sub_states, errors, task, task_slice, task_result, completed>>
vars == <<overflow_checks, rewrite_vars, pool_vars, worker_vars>>

NoLSystem == LSystemNew(<<>>, HashMapRulesNew, None)
EmptySlots == [n \in {} |-> <<>>]

InitRewrite ==
    /\ overflow_checks \in BOOLEAN
    /\ phase = "build"
    /\ lsystem_rules = HashMapRulesNew
    /\ nsets = 0
    /\ set_calls = <<>>
    /\ simple_lsystem = NoLSystem
    /\ simple_out = None
    /\ chunks_processor = Err(<<>>)
    /\ new_args = None
    /\ chunks_lsystem = NoLSystem
    /\ chunks_out = None

InitPool ==
    /\ cpc = "idle"
    /\ sub_states = EmptySlots
    /\ errors = <<>>
    /\ task = EmptySlots
    /\ task_slice = EmptySlots
    /\ task_result = EmptySlots
    /\ completed = <<>>

\* rules.set(symbol, production, interpretation)
RulesSet ==
    /\ phase = "build"
    /\ nsets < MaxSets
    /\ \E symbol \in Symbols, prod \in Productions, interp \in SetInterpretations :
          LET call == HashMapRulesSet(lsystem_rules, symbol, prod, interp)
          IN /\ lsystem_rules' = call.self
             /\ set_calls' = Append(set_calls, [symbol |-> symbol, production |-> prod,
                                                modified |-> call.modified])
    /\ nsets' = nsets + 1
    /\ UNCHANGED <<phase, simple_lsystem, simple_out, chunks_processor, new_args,
                   chunks_lsystem, chunks_out>>
    /\ UNCHANGED pool_vars
    /\ UNCHANGED <<worker_vars, overflow_checks>>

\* LSystem::new(axiom, new_rules_value(rules), None) and
\* ChunksProcessor::new(max_tasks, chunk_size)
NewLSystem ==
    /\ phase = "build"
    /\ \E a \in Axioms, max_tasks \in 0 .. MaxTasks, chunk_size \in 0 .. MaxChunkSize :
          /\ simple_lsystem' = LSystemNew(a, lsystem_rules, None)
          /\ chunks_lsystem' = LSystemNew(a, lsystem_rules, None)
          /\ chunks_processor' = ChunksProcessorNew(max_tasks, chunk_size)
          /\ new_args' = Some([max_tasks |-> max_tasks, chunk_size |-> chunk_size])
    /\ phase' = "run"
    /\ set_calls' = <<>>
    /\ UNCHANGED <<lsystem_rules, nsets, simple_out, chunks_out>>
    /\ UNCHANGED pool_vars
    /\ UNCHANGED <<worker_vars, overflow_checks>>

\* the bound on the calls of a driver: a generation of iteration max and over
\* is not iterated, but for one created at the last iteration there is
CallsLeft(g, max) == g.iteration < max \/ g.iteration = U64Max

\* SimpleProcessor.iterate(&lsystem)
SimpleIterate ==
    /\ phase = "run"
    /\ ~simple_out.some
    /\ CallsLeft(simple_lsystem, MaxIter)
    /\ Len(simple_lsystem.state) <= MaxLen
    /\ simple_out' = Some(SimpleProcessorIterate(simple_lsystem))
    /\ UNCHANGED <<phase, lsystem_rules, nsets, set_calls, simple_lsystem, chunks_processor,
                   new_args, chunks_lsystem, chunks_out>>
    /\ UNCHANGED pool_vars
    /\ UNCHANGED <<worker_vars, overflow_checks>>

\* ChunksProcessor::iterate up to pool.for_: the set-up
ChunksSetUp ==
    /\ phase = "run"
    /\ chunks_processor.ok
    /\ cpc = "idle"
    /\ ~chunks_out.some
    /\ LET state_len == Len(chunks_lsystem.state)
           chunks_number == ChunksNumber(state_len, chunks_processor.val.chunk_size)
           vec == PushLoop(chunks_number, 0, 0)
           start == PoolStart(chunks_number)
       IN IF state_len = 0
          THEN /\ chunks_out' = Some(Err(<<"cannot iterate an empty state">>))
               /\ UNCHANGED pool_vars
          ELSE IF ~vec.ok
          THEN /\ chunks_out' = Some(vec)
               /\ cpc' = IF Aborts(vec) THEN "aborted" ELSE cpc
               /\ UNCHANGED <<sub_states, errors, task, task_slice, task_result, completed>>
          ELSE /\ cpc' = "pool"
               /\ sub_states' = start.sub_states
               /\ errors' = start.errors
               /\ task' = start.task
               /\ task_slice' = start.task_slice
               /\ task_result' = start.task_result
               /\ completed' = <<>>
               /\ UNCHANGED chunks_out
    /\ UNCHANGED <<phase, lsystem_rules, nsets, set_calls, simple_lsystem, simple_out,
                   chunks_processor, new_args, chunks_lsystem>>
    /\ UNCHANGED <<worker_vars, overflow_checks>>

\* processor.iterate(&lsystem), to pool.for_
ChunksBegin ==
    /\ CallsLeft(chunks_lsystem, MaxIter)
    /\ Len(chunks_lsystem.state) <= MaxLen
    /\ ChunksSetUp

\* the call of ChunksProcessor::iterate in pool.for_
Pool == [task |-> task, task_slice |-> task_slice, task_result |-> task_result,
         sub_states |-> sub_states, errors |-> errors, out |-> None]

\* a step of a closure: the call is left as p, and the process has ended
\* when a closure was refused its memory
PoolStep(p) ==
    /\ task' = p.task
    /\ task_slice' = p.task_slice
    /\ task_result' = p.task_result
    /\ sub_states' = p.sub_states
    /\ errors' = p.errors
    /\ cpc' = IF p.out.some THEN "aborted" ELSE cpc
    /\ chunks_out' = IF p.out.some THEN p.out ELSE chunks_out

\* a pool thread takes chunk n and runs the closure up to
\* Vec::with_capacity in iterate_slice
TaskRun ==
    /\ cpc = "pool"
    /\ \E n \in DOMAIN task :
          /\ task[n] = "todo"
          /\ Cardinality(Active(Pool)) < chunks_processor.val.max_tasks
          /\ PoolStep(ClosureAllocate(chunks_processor.val, chunks_lsystem, Pool, n))
    /\ UNCHANGED completed
    /\ UNCHANGED <<phase, lsystem_rules, nsets, set_calls, simple_lsystem, simple_out,
                   chunks_processor, new_args, chunks_lsystem>>
    /\ UNCHANGED <<worker_vars, overflow_checks>>

\* the closure goes on in the for loop of iterate_slice, to the turn in which
\* the buffer of result grows or to the return
TaskFill ==
    /\ cpc = "pool"
    /\ \E n \in DOMAIN task :
          /\ task[n] = "allocated"
          /\ PoolStep(ClosureFill(chunks_processor.val, chunks_lsystem, Pool, n))
    /\ UNCHANGED completed
    /\ UNCHANGED <<phase, lsystem_rules, nsets, set_calls, simple_lsystem, simple_out,
                   chunks_processor, new_args, chunks_lsystem>>
    /\ UNCHANGED <<worker_vars, overflow_checks>>

\* TaskStore with the result stored in the next free slot, not in slot n
TaskStoreNextFree ==
    /\ cpc = "pool"
    /\ \E n \in DOMAIN task :
          /\ task[n] = "running"
          /\ sub_states' = [sub_states EXCEPT ![Len(completed)] = task_result[n]]
          /\ task_result' = [task_result EXCEPT ![n] = <<>>]
          /\ task' = [task EXCEPT ![n] = "done"]
          /\ completed' = Append(completed, n)
    /\ UNCHANGED <<cpc, errors, task_slice>>
    /\ UNCHANGED rewrite_vars
    /\ UNCHANGED <<worker_vars, overflow_checks>>

\* chunk_data[n] = result
TaskStore ==
    /\ cpc = "pool"
    /\ \E n \in DOMAIN task :
          /\ task[n] = "running"
          /\ PoolStep(ClosureStore(Pool, n))
          /\ completed' = Append(completed, n)
    /\ UNCHANGED <<phase, lsystem_rules, nsets, set_calls, simple_lsystem, simple_out,
                   chunks_processor, new_args, chunks_lsystem>>
    /\ UNCHANGED <<worker_vars, overflow_checks>>

\* ChunksJoin not waiting for the closures that are still in progress
ChunksJoinEarly ==
    /\ cpc = "pool"
    /\ \/ \A n \in DOMAIN task : task[n] # "todo"
       \/ \E n \in DOMAIN task : task[n] = "panicked"
    /\ LET p == PoolJoin(chunks_lsystem, Pool)
       IN /\ chunks_out' = p.out
          /\ cpc' = IF Aborts(p.out.val) THEN "aborted" ELSE "idle"
    /\ sub_states' = EmptySlots
    /\ errors' = <<>>
    /\ task' = EmptySlots
    /\ task_slice' = EmptySlots
    /\ task_result' = EmptySlots
    /\ UNCHANGED completed
    /\ UNCHANGED <<phase, lsystem_rules, nsets, set_calls, simple_lsystem, simple_out,
                   chunks_processor, new_args, chunks_lsystem>>
    /\ UNCHANGED <<worker_vars, overflow_checks>>

\* pool.for_ returns, or panics; error handling, final assembling
ChunksJoin ==
    /\ cpc = "pool"
    /\ Active(Pool) = {}
    /\ \/ \A n \in DOMAIN task : task[n] = "done"
       \/ \E n \in DOMAIN task : task[n] = "panicked"
    /\ LET p == PoolJoin(chunks_lsystem, Pool)
       IN /\ chunks_out' = p.out
          /\ cpc' = IF Aborts(p.out.val) THEN "aborted" ELSE "idle"
    /\ sub_states' = EmptySlots
    /\ errors' = <<>>
    /\ task' = EmptySlots
    /\ task_slice' = EmptySlots
    /\ task_result' = EmptySlots
    /\ UNCHANGED completed
    /\ UNCHANGED <<phase, lsystem_rules, nsets, set_calls, simple_lsystem, simple_out,
                   chunks_processor, new_args, chunks_lsystem>>
    /\ UNCHANGED <<worker_vars, overflow_checks>>

\* lsystem = match processor.iterate(&lsystem) { Ok(r) => r, .. } in the
\* driver of the SimpleProcessor; on Err the driver panics
SimpleAdvance ==
    /\ simple_out.some /\ simple_out.val.ok
    /\ simple_lsystem' = simple_out.val.val
    /\ simple_out' = None
    /\ UNCHANGED <<phase, lsystem_rules, nsets, set_calls, chunks_processor, new_args,
                   chunks_lsystem, chunks_out>>
    /\ UNCHANGED pool_vars
    /\ UNCHANGED <<worker_vars, overflow_checks>>

\* the same in the driver of the ChunksProcessor
ChunksAdvance ==
    /\ chunks_out.some /\ chunks_out.val.ok
    /\ chunks_lsystem' = chunks_out.val.val
    /\ chunks_out' = None
    /\ completed' = <<>>
    /\ UNCHANGED <<phase, lsystem_rules, nsets, set_calls, chunks_processor, new_args,
                   simple_lsystem, simple_out>>
    /\ UNCHANGED <<cpc, sub_states, errors, task, task_slice, task_result>>
    /\ UNCHANGED <<worker_vars, overflow_checks>>

\* number of generations the tests of process/ rewrite the axiom "A" into
MaxGen == 7

\* the loop of the tests: SimpleProcessor.iterate(&lsystem)
TestIterate ==
    /\ phase = "run"
    /\ ~simple_out.some
    /\ CallsLeft(simple_lsystem, MaxGen)
    /\ simple_out' = Some(SimpleProcessorIterate(simple_lsystem))
    /\ UNCHANGED <<phase, lsystem_rules, nsets, set_calls, simple_lsystem, chunks_processor,
                   new_args, chunks_lsystem, chunks_out>>
    /\ UNCHANGED pool_vars
    /\ UNCHANGED <<worker_vars, overflow_checks>>

\* the loop of the tests: processor.iterate(&lsystem), to pool.for_
TestChunksBegin ==
    /\ CallsLeft(chunks_lsystem, MaxGen)
    /\ ChunksSetUp

(***************************************************************************)
(* view.rs: the worker thread and the viewer that commands it.             *)
(***************************************************************************)
\* number of commands a viewer sends
MaxCmds == 4

\* the rule tables a viewer loads: A -> A...A (GrowLen times), and no rule
\* at all
GrowLen == 5
GrowRules ==
    HashMapRulesSet(HashMapRulesNew, "A", [i \in 1 .. GrowLen |-> "A"],
                    AdvanceBy(10)).self
WorkerRules == {GrowRules, HashMapRulesNew}
WorkerAxioms == {<<>>, <<"A">>, <<"A", "A">>, <<"A", "A", "A", "A", "A">>}
LoadInputs ==
    {LoadLSystem(a, HashMapRulesNew) : a \in {<<>>, <<"A">>}}
        \cup {LoadLSystem(a, GrowRules) : a \in WorkerAxioms \ {<<>>}}
Commands == LoadInputs \cup {ResetLSystem, Iterate, Interpret, Terminate}
\* the processors a worker is started with; the ChunksProcessor is the one of
\* Application::run, whose chunks are longer than the states it is given
WorkerProcessors == {SimpleProcessor, ChunksProcessorNew(4, 64).val}
WorkerInterpreters == {SimpleInterpreter, FailingInterpreter}

\* number of Iterate commands of the longest script
MaxK == 3

\* the algae rules of the tests: A -> AB, B -> A
AlgaeRules ==
    HashMapRulesSet(HashMapRulesSet(HashMapRulesNew, "A", <<"A", "B">>, TurtleNone).self,
                    "B", <<"A">>, TurtleNone).self
\* the rules of test::simple_interpreter and of Application::run; the
\* production of B is written there with U+2212 in the place of '-'
CurveRules ==
    HashMapRulesSet(
        HashMapRulesSet(
            HashMapRulesSet(
                HashMapRulesSet(HashMapRulesNew,
                                "A", <<"+", "B", "-", "A", "-", "B", "+">>, AdvanceBy(10)).self,
                "B", <<"U+2212", "A", "+", "B", "+", "A", "U+2212">>, AdvanceBy(15)).self,
            "+", <<"+">>, RotateBy(60)).self,
        "-", <<"-">>, RotateBy(-60)).self
ScriptLoads == LoadInputs \cup {LoadLSystem(<<"A">>, AlgaeRules),
                                LoadLSystem(<<"A">>, CurveRules)}

\* the commands a viewer sends: LoadLSystem, Iterate k times, Interpret,
\* Terminate
Script(load, k) == <<load>> \o [i \in 1 .. k |-> Iterate] \o <<Interpret, Terminate>>
\* the same with a ResetLSystem after the Iterate commands
ResetScript(load, k) ==
    <<load>> \o [i \in 1 .. k |-> Iterate] \o <<ResetLSystem, Interpret, Terminate>>
\* the commands of Application::run: Iterate, LoadLSystem, Iterate k times (16
\* times there), Terminate
AppScript(load, k) == <<Iterate, load>> \o [i \in 1 .. k |-> Iterate] \o <<Terminate>>
Scripts ==
    {Script(load, k) : load \in ScriptLoads, k \in 0 .. MaxK}
        \cup {ResetScript(load, k) : load \in ScriptLoads, k \in 0 .. MaxK}
        \cup {AppScript(load, k) : load \in ScriptLoads, k \in 0 .. MaxK}

\* the viewer is in no call of command_and_wait
AppIdle == [pc |-> "idle", msg |-> None, nread |-> 0, returned |-> <<>>,
            ncalls |-> 0, disconnected |-> FALSE]

WorkerNotStarted ==
    /\ app = AppIdle
    /\ status = "not started"
    /\ wpc = "recv"
    /\ message_from_ui = None
    /\ rx = <<>>
    /\ tx = <<>>
    /\ axiom = None
    /\ rules = None
    /\ lsystem = None
    /\ processor = SimpleProcessor
    /\ interpreter = SimpleInterpreter
    /\ script = <<>>
    /\ sent = <<>>
    /\ nrecv = 0
    /\ reply_to = <<>>
    /\ calls = [processor |-> 0, interpreter |-> 0]

\* start_worker(processor, interpreter)
InitWorker ==
    /\ app = AppIdle
    /\ status = "running"
    /\ wpc = "recv"
    /\ message_from_ui = None
    /\ rx = <<>>
    /\ tx = <<>>
    /\ axiom = None
    /\ rules = None
    /\ lsystem = None
    /\ processor \in WorkerProcessors
    /\ interpreter \in WorkerInterpreters
    /\ script = <<>>
    /\ sent = <<>>
    /\ nrecv = 0
    /\ reply_to = <<>>
    /\ calls = [processor |-> 0, interpreter |-> 0]

\* the viewer: tx.send(msg), which fails once the worker has dropped rx
Send ==
    /\ status \notin {"not started", "aborted"}
    /\ wpc # "exited"
    /\ Len(sent) < MaxCmds
    /\ \E msg \in Commands :
          /\ rx' = Append(rx, msg)
          /\ sent' = Append(sent, msg)
    /\ UNCHANGED <<status, wpc, message_from_ui, tx, axiom, rules, lsystem,
                   processor, interpreter, script, nrecv, reply_to, calls>>
    /\ UNCHANGED <<overflow_checks, rewrite_vars, pool_vars, app>>

\* a scripted viewer: tx.send of the next command, no reply being read
ScriptSend ==
    /\ status \notin {"not started", "aborted"}
    /\ wpc # "exited"
    /\ script # <<>>
    /\ rx' = Append(rx, Head(script))
    /\ sent' = Append(sent, Head(script))
    /\ script' = Tail(script)
    /\ UNCHANGED <<status, wpc, message_from_ui, tx, axiom, rules, lsystem,
                   processor, interpreter, nrecv, reply_to, calls>>
    /\ UNCHANGED <<overflow_checks, rewrite_vars, pool_vars, app>>

\* command_and_wait(tx, rx, msg) up to its loop: tx.send(msg).unwrap().  The
\* send fails, and unwrap panics, once the worker thread has ended and
\* dropped its receiver; a send made before the drop succeeds.
AppSend ==
    /\ status \notin {"not started", "aborted"}
    /\ app.pc = "idle"
    /\ app.ncalls < MaxCmds
    /\ \E msg \in Commands :
          IF wpc # "exited"
          THEN /\ rx' = Append(rx, msg)
               /\ sent' = Append(sent, msg)
               /\ app' = [app EXCEPT !.pc = "waiting", !.msg = Some(msg),
                                     !.ncalls = @ + 1]
          ELSE /\ app' = [app EXCEPT !.pc = "panicked", !.msg = Some(msg),
                                     !.ncalls = @ + 1]
               /\ UNCHANGED <<rx, sent>>
    /\ UNCHANGED <<status, wpc, message_from_ui, tx, axiom, rules, lsystem,
                   processor, interpreter, script, nrecv, reply_to, calls>>
    /\ UNCHANGED <<overflow_checks, rewrite_vars, pool_vars>>

\* the loop of command_and_wait: rx.recv() returns Ok(response); the call
\* returns the response when it has the type expected for msg or is an Error
AppRecv ==
    /\ status # "aborted"
    /\ app.pc = "waiting"
    /\ app.nread < Len(tx)
    /\ LET response == tx[app.nread + 1]
           error_type == Error(<<>>)
           response_type == from_command(app.msg.val)
       IN IF same_type(response, response_type) \/ same_type(response, error_type)
          THEN app' = [app EXCEPT !.pc = "idle", !.nread = @ + 1,
                                  !.returned = Append(@, response)]
          ELSE app' = [app EXCEPT !.nread = @ + 1]
    /\ UNCHANGED <<status, wpc, message_from_ui, rx, tx, axiom, rules, lsystem,
                   processor, interpreter, script, sent, nrecv, reply_to, calls>>
    /\ UNCHANGED <<overflow_checks, rewrite_vars, pool_vars>>

\* the loop of command_and_wait: rx.recv() returns Err, the worker thread
\* having ended and every event having been received; _ => () loops again
AppRecvErr ==
    /\ status # "aborted"
    /\ app.pc = "waiting"
    /\ app.nread = Len(tx)
    /\ wpc = "exited"
    /\ app' = [app EXCEPT !.disconnected = TRUE]
    /\ UNCHANGED <<status, wpc, message_from_ui, rx, tx, axiom, rules, lsystem,
                   processor, interpreter, script, sent, nrecv, reply_to, calls>>
    /\ UNCHANGED <<overflow_checks, rewrite_vars, pool_vars>>

\* rx.try_recv() returns Ok(message_from_ui)
WorkerRecv ==
    /\ status = "running"
    /\ wpc = "recv"
    /\ rx # <<>>
    /\ message_from_ui' = Some(Head(rx))
    /\ rx' = Tail(rx)
    /\ nrecv' = nrecv + 1
    /\ wpc' = "handle"
    /\ UNCHANGED <<status, tx, axiom, rules, lsystem, processor, interpreter,
                   script, sent, reply_to, calls>>
    /\ UNCHANGED <<overflow_checks, rewrite_vars, pool_vars, app>>

\* tx.send(event).unwrap(), the viewer keeping its receiver
Reply(event) ==
    /\ tx' = Append(tx, event)
    /\ reply_to' = Append(reply_to, nrecv)

Handling(type) ==
    /\ status = "running"
    /\ wpc = "handle"
    /\ message_from_ui.val.type = type

\* the end of the match arm: sleep, then back to try_recv
Handled ==
    /\ wpc' = "recv"
    /\ message_from_ui' = None

\* WorkerLoad keeping the generation that is already loaded
WorkerLoadKeep ==
    /\ Handling("LoadLSystem")
    /\ axiom' = Some(message_from_ui.val.axiom)
    /\ rules' = Some(message_from_ui.val.rules)
    /\ lsystem' = IF lsystem.some THEN lsystem
                  ELSE Some(LSystemNew(axiom'.val, rules'.val, None))
    /\ Reply(LoadingFinished)
    /\ Handled
    /\ UNCHANGED <<status, rx, processor, interpreter, script, sent, nrecv, calls>>
    /\ UNCHANGED <<overflow_checks, rewrite_vars, pool_vars, app>>

\* LoadLSystem(new_axiom, new_rules) => ...
WorkerLoad ==
    /\ Handling("LoadLSystem")
    /\ axiom' = Some(message_from_ui.val.axiom)
    /\ rules' = Some(message_from_ui.val.rules)
    /\ lsystem' = Some(LSystemNew(axiom'.val, rules'.val, None))
    /\ Reply(LoadingFinished)
    /\ Handled
    /\ UNCHANGED <<status, rx, processor, interpreter, script, sent, nrecv, calls>>
    /\ UNCHANGED <<overflow_checks, rewrite_vars, pool_vars, app>>

\* WorkerReset leaving the current generation in place
WorkerResetKeep ==
    /\ Handling("ResetLSystem")
    /\ lsystem.some
    /\ lsystem' = lsystem
    /\ Reply(ResettingFinised)
    /\ Handled
    /\ UNCHANGED <<status, rx, axiom, rules, processor, interpreter, script,
                   sent, nrecv, calls>>
    /\ UNCHANGED <<overflow_checks, rewrite_vars, pool_vars, app>>

\* ResetLSystem if lsystem.is_some() => ...
WorkerReset ==
    /\ Handling("ResetLSystem")
    /\ lsystem.some
    /\ lsystem' = Some(LSystemNew(axiom.val, rules.val, None))
    /\ Reply(ResettingFinised)
    /\ Handled
    /\ UNCHANGED <<status, rx, axiom, rules, processor, interpreter, script,
                   sent, nrecv, calls>>
    /\ UNCHANGED <<overflow_checks, rewrite_vars, pool_vars, app>>

\* Iterate if lsystem.is_some() => ...: the match assigns None to lsystem on
\* Err, and the println! that follows unwraps lsystem
WorkerIterate ==
    /\ Handling("Iterate")
    /\ lsystem.some
    /\ \E r \in LProcessorIterate(processor, lsystem.val) :
          IF r.ok
          THEN /\ Reply(IterationFinished(r.val.iteration))
               /\ lsystem' = Some(r.val)
               /\ Handled
               /\ UNCHANGED status
          ELSE IF Returns(r)
          THEN /\ Reply(Error(r.err))
               /\ lsystem' = None
               /\ status' = "panicked"
               /\ UNCHANGED <<wpc, message_from_ui>>
          ELSE /\ status' = IF Panics(r) THEN "panicked" ELSE "aborted"
               /\ UNCHANGED <<wpc, message_from_ui, tx, reply_to, lsystem>>
    /\ calls' = [calls EXCEPT !.processor = @ + 1]
    /\ UNCHANGED <<rx, axiom, rules, processor, interpreter, script, sent, nrecv>>
    /\ UNCHANGED <<overflow_checks, rewrite_vars, pool_vars, app>>

\* WorkerInterpret answering with the event of an Iterate command
WorkerInterpretAsIterate ==
    /\ Handling("Interpret")
    /\ lsystem.some
    /\ LET r == LInterpreterInterpret(interpreter, lsystem.val)
       IN IF r.ok
          THEN /\ Reply(IterationFinished(lsystem.val.iteration))
               /\ Handled
               /\ UNCHANGED status
          ELSE IF Returns(r)
          THEN /\ Reply(Error(r.err))
               /\ Handled
               /\ UNCHANGED status
          ELSE /\ status' = IF Panics(r) THEN "panicked" ELSE "aborted"
               /\ UNCHANGED <<wpc, message_from_ui, tx, reply_to>>
    /\ calls' = [calls EXCEPT !.interpreter = @ + 1]
    /\ UNCHANGED <<rx, axiom, rules, lsystem, processor, interpreter,
                   script, sent, nrecv>>
    /\ UNCHANGED <<overflow_checks, rewrite_vars, pool_vars, app>>

\* Interpret if lsystem.is_some() => ...
WorkerInterpret ==
    /\ Handling("Interpret")
    /\ lsystem.some
    /\ LET r == LInterpreterInterpret(interpreter, lsystem.val)
       IN IF r.ok
          THEN /\ Reply(InterpretationFinished(r.val))
               /\ Handled
               /\ UNCHANGED status
          ELSE IF Returns(r)
          THEN /\ Reply(Error(r.err))
               /\ Handled
               /\ UNCHANGED status
          ELSE /\ status' = IF Panics(r) THEN "panicked" ELSE "aborted"
               /\ UNCHANGED <<wpc, message_from_ui, tx, reply_to>>
    /\ calls' = [calls EXCEPT !.interpreter = @ + 1]
    /\ UNCHANGED <<rx, axiom, rules, lsystem, processor, interpreter,
                   script, sent, nrecv>>
    /\ UNCHANGED <<overflow_checks, rewrite_vars, pool_vars, app>>

\* WorkerTerminate without the break
WorkerTerminateNoBreak ==
    /\ Handling("Terminate")
    /\ Reply(Terminated)
    /\ Handled
    /\ UNCHANGED <<status, rx, axiom, rules, lsystem, processor, interpreter,
                   script, sent, nrecv, calls>>
    /\ UNCHANGED <<overflow_checks, rewrite_vars, pool_vars, app>>

\* Terminate => { tx.send(Terminated).unwrap(); break 'main; }
WorkerTerminate ==
    /\ Handling("Terminate")
    /\ Reply(Terminated)
    /\ status' = "terminated"
    /\ UNCHANGED <<wpc, message_from_ui, rx, axiom, rules, lsystem, processor,
                   interpreter, script, sent, nrecv, calls>>
    /\ UNCHANGED <<overflow_checks, rewrite_vars, pool_vars, app>>

\* WorkerNotLoaded doing nothing, no event sent
WorkerNotLoadedSilent ==
    /\ status = "running"
    /\ wpc = "handle"
    /\ message_from_ui.val.type \in {"ResetLSystem", "Iterate", "Interpret"}
    /\ ~lsystem.some
    /\ Handled
    /\ UNCHANGED <<status, rx, tx, axiom, rules, lsystem, processor, interpreter,
                   script, sent, nrecv, reply_to, calls>>
    /\ UNCHANGED <<overflow_checks, rewrite_vars, pool_vars, app>>

\* _ => tx.send(Error("no LSystem loaded")): the arms whose guard failed
WorkerNotLoaded ==
    /\ status = "running"
    /\ wpc = "handle"
    /\ message_from_ui.val.type \in {"ResetLSystem", "Iterate", "Interpret"}
    /\ ~lsystem.some
    /\ Reply(Error(<<"no LSystem loaded">>))
    /\ Handled
    /\ UNCHANGED <<status, rx, axiom, rules, lsystem, processor, interpreter,
                   script, sent, nrecv, calls>>
    /\ UNCHANGED <<overflow_checks, rewrite_vars, pool_vars, app>>

\* the thread returns from worker_loop, or finishes unwinding: rx and tx,
\* which worker_loop owns, are dropped
WorkerExit ==
    /\ status \in {"terminated", "panicked"}
    /\ wpc # "exited"
    /\ wpc' = "exited"
    /\ UNCHANGED <<status, message_from_ui, rx, tx, axiom, rules, lsystem, processor,
                   interpreter, script, sent, nrecv, reply_to, calls>>
    /\ UNCHANGED <<overflow_checks, rewrite_vars, pool_vars, app>>

Worker ==
    \/ WorkerRecv
    \/ WorkerLoad
    \/ WorkerReset
    \/ WorkerIterate
    \/ WorkerInterpret
    \/ WorkerTerminate
    \/ WorkerNotLoaded
    \/ WorkerExit

(***************************************************************************)
(* The specifications.                                                     *)
(***************************************************************************)
\* the rewriting drivers
Init == InitRewrite /\ InitPool /\ WorkerNotStarted

Next ==
    \/ RulesSet
    \/ NewLSystem
    \/ SimpleIterate
    \/ ChunksBegin
    \/ TaskRun
    \/ TaskFill
    \/ TaskStore
    \/ ChunksJoin
    \/ SimpleAdvance
    \/ ChunksAdvance

Spec == Init /\ [][Next]_vars

\* a table whose rule A -> prod has been replaced by A -> AB: set keeps the
\* length of prod as the biggest expansion
StaleRules(prod) ==
    HashMapRulesSet(HashMapRulesSet(HashMapRulesNew, "A", prod, TurtleNone).self,
                    "A", <<"A", "B">>, TurtleNone).self
\* a table whose only rule is A -> A...A (BulkLen times)
BulkRules == HashMapRulesSet(HashMapRulesNew, "A", BulkProduction, TurtleNone).self
ChunkTables == {AlgaeRules, StaleRules(HugeProduction), BulkRules}
ChunkAxioms == SeqsUpTo(Symbols, MaxLen)
\* the iteration given to LSystem::new: None, and for one axiom the last
\* iteration there is
ChunkIterations(a) == IF a = <<"A", "B">> THEN {None, Some(U64Max)} ELSE {None}

\* a caller that hands a generation made from any axiom to both processors:
\* the state after LSystem::new and ChunksProcessor::new
InitChunks ==
    /\ overflow_checks \in BOOLEAN
    /\ phase = "run"
    /\ lsystem_rules \in ChunkTables
    /\ nsets = Cardinality(DOMAIN lsystem_rules.rules)
    /\ set_calls = <<>>
    /\ \E a \in ChunkAxioms :
          \E iteration \in ChunkIterations(a) :
              /\ simple_lsystem = LSystemNew(a, lsystem_rules, iteration)
              /\ chunks_lsystem = LSystemNew(a, lsystem_rules, iteration)
    /\ simple_out = None
    /\ \E max_tasks \in 1 .. MaxTasks, chunk_size \in 1 .. MaxChunkSize :
          /\ chunks_processor = ChunksProcessorNew(max_tasks, chunk_size)
          /\ new_args = Some([max_tasks |-> max_tasks, chunk_size |-> chunk_size])
    /\ chunks_out = None
    /\ InitPool
    /\ WorkerNotStarted

NextChunks ==
    \/ SimpleIterate
    \/ ChunksBegin
    \/ TaskRun
    \/ TaskFill
    \/ TaskStore
    \/ ChunksJoin
    \/ SimpleAdvance
    \/ ChunksAdvance

SpecChunks == InitChunks /\ [][NextChunks]_vars

\* the tests of process/: the algae rules, the axiom "A", both processors
AlgaeChunkSizes == {5, 8}

InitAlgae ==
    /\ overflow_checks \in BOOLEAN
    /\ phase = "run"
    /\ lsystem_rules = AlgaeRules
    /\ nsets = 2
    /\ set_calls = <<>>
    /\ simple_lsystem = LSystemNew(<<"A">>, lsystem_rules, None)
    /\ simple_out = None
    /\ \E max_tasks \in 1 .. MaxTasks, chunk_size \in AlgaeChunkSizes :
          /\ chunks_processor = ChunksProcessorNew(max_tasks, chunk_size)
          /\ new_args = Some([max_tasks |-> max_tasks, chunk_size |-> chunk_size])
    /\ chunks_lsystem = LSystemNew(<<"A">>, lsystem_rules, None)
    /\ chunks_out = None
    /\ InitPool
    /\ WorkerNotStarted

NextAlgae ==
    \/ TestIterate
    \/ TestChunksBegin
    \/ TaskRun
    \/ TaskFill
    \/ TaskStore
    \/ ChunksJoin
    \/ SimpleAdvance
    \/ ChunksAdvance

SpecAlgae == InitAlgae /\ [][NextAlgae]_vars

\* the worker thread and a viewer that sends any commands
InitViewer == InitRewrite /\ InitPool /\ InitWorker

NextViewer == Send \/ Worker

SpecWorker == InitViewer /\ [][NextViewer]_vars

\* the worker thread and a viewer that gives its commands to
\* command_and_wait, one call after the other; the worker thread and the
\* viewer each go on as long as they have a step to take
NextApp == AppSend \/ AppRecv \/ AppRecvErr \/ Worker

SpecApp ==
    /\ InitViewer
    /\ [][NextApp]_vars
    /\ WF_vars(Worker)
    /\ WF_vars(AppRecv)

\* the worker thread and a viewer that sends the commands of a script
\* without reading any reply
InitScript ==
    /\ InitRewrite
    /\ InitPool
    /\ app = AppIdle
    /\ status = "running"
    /\ wpc = "recv"
    /\ message_from_ui = None
    /\ rx = <<>>
    /\ tx = <<>>
    /\ axiom = None
    /\ rules = None
    /\ lsystem = None
    /\ processor \in WorkerProcessors
    /\ interpreter = SimpleInterpreter
    /\ script \in Scripts
    /\ sent = <<>>
    /\ nrecv = 0
    /\ reply_to = <<>>
    /\ calls = [processor |-> 0, interpreter |-> 0]

NextScript == ScriptSend \/ Worker

SpecScript == InitScript /\ [][NextScript]_vars

(***************************************************************************)
(* The rewrite of a state, symbol by symbol: the production of a symbol    *)
(* that has a rule, the symbol itself otherwise.                           *)
(***************************************************************************)
Image(table, s) ==
    IF s \in DOMAIN table.rules THEN table.rules[s].production ELSE <<s>>

RECURSIVE Flatten(_)
Flatten(seqs) == IF seqs = <<>> THEN <<>> ELSE Head(seqs) \o Flatten(Tail(seqs))

Rewritten(st, table) == Flatten([i \in 1 .. Len(st) |-> Image(table, st[i])])

(***************************************************************************)
(* The claims about the rewriters, checked under Spec and SpecChunks.      *)
(***************************************************************************)

\* C1 as stated: whatever the rule table, the axiom and N, and for non-zero
\* max_tasks and chunk_size, the N-th ChunksProcessor::iterate and the N-th
\* SimpleProcessor::iterate both succeed and return the same state and the
\* same iteration.  Checked under SpecChunks.
C1_Original ==
    /\ simple_out.some => simple_out.val.ok
    /\ chunks_out.some => chunks_out.val.ok
    /\ simple_lsystem.iteration = chunks_lsystem.iteration =>
          /\ simple_lsystem.state = chunks_lsystem.state
          /\ (simple_out.some /\ chunks_out.some) =>
                /\ chunks_out.val.val.state = simple_out.val.val.state
                /\ chunks_out.val.val.iteration = simple_out.val.val.iteration

C2_OrderPreserved ==
    /\ cpc = "pool" =>
          \A n \in DOMAIN task :
              (task[n] = "done" /\ errors = <<>>) =>
                  sub_states[n] =
                      Rewritten(Chunk(chunks_lsystem.state,
                                      chunks_processor.val.chunk_size, n),
                                chunks_lsystem.rules)
    /\ (chunks_out.some /\ chunks_out.val.ok) =>
          chunks_out.val.val.state =
              Rewritten(chunks_lsystem.state, chunks_lsystem.rules)

\* iterate has returned a state after the task of the last of at least three
\* chunks finished first, and the chunks were not all rewritten alike
C2_Witness ==
    /\ chunks_out.some /\ chunks_out.val.ok
    /\ Len(completed) >= 3
    /\ completed[1] = Len(completed) - 1
    /\ \E i, j \in 1 .. Len(chunks_lsystem.state) :
          Image(chunks_lsystem.rules, chunks_lsystem.state[i])
              # Image(chunks_lsystem.rules, chunks_lsystem.state[j])

\* C3 as stated: when the size state.len() * biggest_expansion() does not
\* overflow, SimpleProcessor::iterate on G returns a generation with
\* iteration G.iteration + 1, G's rules, and the state in which every symbol
\* of G.state is replaced, in order, by its production, or kept when it has
\* no rule.  Checked under SpecChunks.
C3_Original ==
    (simple_out.some
        /\ Len(simple_lsystem.state) * simple_lsystem.rules.biggest_expansion
              <= UsizeMax) =>
        /\ simple_out.val.ok
        /\ simple_out.val.val.iteration = simple_lsystem.iteration + 1
        /\ simple_out.val.val.rules = simple_lsystem.rules
        /\ simple_out.val.val.state =
              Rewritten(simple_lsystem.state, simple_lsystem.rules)

(***************************************************************************)
(* The claims about the rule table, checked under Spec.                    *)
(***************************************************************************)
\* the length of the longest production of the rules in the table, 0 if none
LongestProduction(table) ==
    IF DOMAIN table.rules = {} THEN 0
    ELSE CHOOSE n \in {Len(table.rules[s].production) : s \in DOMAIN table.rules} :
             \A s \in DOMAIN table.rules : Len(table.rules[s].production) <= n

\* C12 as stated: after any sequence of set calls from new, biggest_expansion()
\* is the larger of 1 and the length of the longest production of the rules
\* now in the table, and so is 1 when the table has no rule.
C12_Original ==
    biggest_expansion(lsystem_rules) =
        IF LongestProduction(lsystem_rules) > 1
        THEN LongestProduction(lsystem_rules) ELSE 1

\* the numbers of the set calls made for a symbol
CallsFor(s) == {k \in 1 .. Len(set_calls) : set_calls[k].symbol = s}

\* C22: after any sequence of set calls, production(s) is the production
\* given to the last set call made for s, and None when no set call was made
\* for s; a set call returns true when an earlier call was made for the same
\* symbol and false otherwise.
C22_Lookup ==
    phase = "build" =>
        /\ \A s \in Symbols \cup {"C"} :
              IF CallsFor(s) = {} THEN production(lsystem_rules, s) = None
              ELSE \E k \in CallsFor(s) :
                      /\ \A j \in CallsFor(s) : j <= k
                      /\ production(lsystem_rules, s) = Some(set_calls[k].production)
        /\ \A k \in 1 .. Len(set_calls) :
              set_calls[k].modified <=> (\E j \in CallsFor(set_calls[k].symbol) : j < k)

\* set has been called twice for the same symbol with two productions: the
\* second call returned true and production gives the second production
C22_Witness ==
    /\ Len(set_calls) = 2
    /\ set_calls[1].symbol = set_calls[2].symbol
    /\ set_calls[1].production # set_calls[2].production
    /\ ~set_calls[1].modified
    /\ set_calls[2].modified
    /\ production(lsystem_rules, set_calls[2].symbol) = Some(set_calls[2].production)

\* C13: no set call, inserting a rule or replacing one, makes
\* biggest_expansion() smaller than it was before the call.
C13_NeverDecreases ==
    [][biggest_expansion(lsystem_rules') >= biggest_expansion(lsystem_rules)]_vars

\* the rule of a symbol has been replaced by a shorter production, and
\* biggest_expansion() is still the length of the production replaced
C13_Witness ==
    /\ nsets = 2
    /\ Cardinality(DOMAIN lsystem_rules.rules) = 1
    /\ biggest_expansion(lsystem_rules) = 2
    /\ LongestProduction(lsystem_rules) = 1

\* C14: when state.len() * biggest_expansion() does not fit a usize,
\* iterate_slice and SimpleProcessor::iterate return an error and no
\* generation, whatever the wrapped product would be.  Checked under
\* SpecChunks.
C14_Overflow ==
    (phase = "run"
        /\ Len(simple_lsystem.state) * biggest_expansion(simple_lsystem.rules)
              > UsizeMax) =>
        /\ "err" \in DOMAIN iterate_slice(0, simple_lsystem.state, simple_lsystem.rules)
        /\ "err" \in DOMAIN SimpleProcessorIterate(simple_lsystem)
        /\ simple_out.some =>
              /\ ~simple_out.val.ok
              /\ "err" \in DOMAIN simple_out.val
              /\ "val" \notin DOMAIN simple_out.val

\* iterate has returned an error on a state whose size estimate, 3 * 192,
\* wraps to a capacity that could have been allocated
C14_Witness ==
    /\ simple_out.some
    /\ "err" \in DOMAIN simple_out.val
    /\ Len(simple_lsystem.state) = 3
    /\ (Len(simple_lsystem.state) * biggest_expansion(simple_lsystem.rules))
          % (2 ^ UsizeBits) = AllocMax \div 3

\* C15 as stated: the capacity state.len() * biggest_expansion() is at least
\* the length of the state iterate returns, and no symbol of the state is
\* rewritten into more than biggest_expansion() symbols.
C15_Original ==
    (simple_out.some /\ simple_out.val.ok) =>
        /\ Len(simple_out.val.val.state)
              <= Len(simple_lsystem.state) * biggest_expansion(simple_lsystem.rules)
        /\ \A i \in 1 .. Len(simple_lsystem.state) :
              Len(Image(simple_lsystem.rules, simple_lsystem.state[i]))
                  <= biggest_expansion(simple_lsystem.rules)

(***************************************************************************)
(* The claims about ChunksProcessor, checked under Spec and SpecChunks.    *)
(***************************************************************************)
\* C16: ChunksProcessor::iterate returns an error and no generation on an
\* empty state and gives no task to the pool; on a state that is not empty
\* it gives the pool ceil(len / chunk_size) chunks which, put end to end in
\* the order of their index, are the state, each of chunk_size symbols but
\* the last, which has from 1 to chunk_size symbols.
C16_Partition ==
    LET st == chunks_lsystem.state
        size == chunks_processor.val.chunk_size
        number == (Len(st) + size - 1) \div size
    IN /\ (chunks_out.some /\ st = <<>>) =>
             /\ ~chunks_out.val.ok
             /\ "val" \notin DOMAIN chunks_out.val
             /\ completed = <<>>
       /\ cpc = "pool" =>
             /\ st # <<>>
             /\ DOMAIN task = 0 .. number - 1
             /\ Flatten([i \in 1 .. number |-> Chunk(st, size, i - 1)]) = st
             /\ \A n \in 0 .. number - 2 : Len(Chunk(st, size, n)) = size
             /\ Len(Chunk(st, size, number - 1)) \in 1 .. size

\* every task of a state of three symbols cut in chunks of two has finished
C16_Witness ==
    /\ cpc = "pool"
    /\ Len(chunks_lsystem.state) = 3
    /\ chunks_processor.val.chunk_size = 2
    /\ \A n \in DOMAIN task : task[n] = "done"
    /\ Len(completed) = 2

\* C17: ChunksProcessor::new(max_tasks, chunk_size) returns an error when
\* max_tasks is 0 or chunk_size is 0, and otherwise the processor of that
\* max_tasks and chunk_size.
C17_New ==
    new_args.some =>
        /\ chunks_processor.ok <=>
              (new_args.val.max_tasks # 0 /\ new_args.val.chunk_size # 0)
        /\ chunks_processor.ok =>
              /\ chunks_processor.val.max_tasks = new_args.val.max_tasks
              /\ chunks_processor.val.chunk_size = new_args.val.chunk_size
        /\ ~chunks_processor.ok => "val" \notin DOMAIN chunks_processor

\* new has returned an error for a chunk_size of 0 and a max_tasks that is not 0
C17_Witness ==
    /\ new_args.some
    /\ new_args.val.max_tasks # 0
    /\ new_args.val.chunk_size = 0
    /\ ~chunks_processor.ok

\* the indices of the chunks of the state on which iterate_slice returns an
\* error
FailingChunks ==
    {n \in 0 .. ChunksNumber(Len(chunks_lsystem.state),
                             chunks_processor.val.chunk_size) - 1 :
        "err" \in DOMAIN iterate_slice(0, Chunk(chunks_lsystem.state,
                                                chunks_processor.val.chunk_size, n),
                                       chunks_lsystem.rules)}

\* C18 as stated: when iterate_slice returns an error on at least one chunk,
\* the call of ChunksProcessor::iterate returns no generation but one error,
\* made of its heading and of the message of each failing chunk, however many
\* chunks fail and in whatever order the tasks finish.  Checked under
\* SpecChunks.
C18_Original ==
    (chunks_out.some /\ chunks_lsystem.state # <<>> /\ FailingChunks # {}) =>
        /\ ~chunks_out.val.ok
        /\ "val" \notin DOMAIN chunks_out.val
        /\ "err" \in DOMAIN chunks_out.val
        /\ chunks_out.val.err =
              <<"ChunksProcessor : iteration error(s):", "">>
                  \o [i \in 1 .. Cardinality(FailingChunks) |->
                        "SimpleProcessor::iterate_slice : usize overflow when computing new Vec size"]

\* the chunk indices whose task has stored its result
Written == {completed[i] : i \in 1 .. Len(completed)}

\* C24: while the tasks of ChunksProcessor::iterate run there is one slot per
\* chunk index; a task that finishes writes the slot of its own index, once,
\* and leaves the other slots as they are; and the call of iterate returns,
\* that is the slots have been read and assembled, only when the task of
\* every chunk has finished and written its slot.  Checked under SpecChunks.
C24_Slots ==
    /\ [](cpc = "pool" =>
            /\ DOMAIN sub_states =
                  0 .. ChunksNumber(Len(chunks_lsystem.state),
                                    chunks_processor.val.chunk_size) - 1
            /\ DOMAIN task = DOMAIN sub_states
            /\ Cardinality(Written) = Len(completed)
            /\ Written = {n \in DOMAIN task : task[n] = "done"}
            /\ \A n \in DOMAIN sub_states \ Written : sub_states[n] = <<>>)
    /\ [][(cpc = "pool" /\ cpc' = "pool" /\ sub_states' # sub_states) =>
            \E n \in DOMAIN task \ Written :
                /\ task[n] = "running"
                /\ completed' = Append(completed, n)
                /\ \A m \in DOMAIN sub_states \ {n} : sub_states'[m] = sub_states[m]]_vars
    /\ [][(cpc = "pool" /\ cpc' # "pool") =>
            /\ chunks_out'.some
            /\ Returns(chunks_out'.val) =>
                  /\ Written = DOMAIN sub_states
                  /\ \A n \in DOMAIN task : task[n] = "done"]_vars

\* four slots have been assembled after their tasks finished in the order
\* 3, 1, 0, 2
C24_Witness ==
    /\ chunks_out.some /\ chunks_out.val.ok
    /\ completed = <<3, 1, 0, 2>>
    /\ Len(chunks_out.val.val.state) > Len(chunks_lsystem.state)

\* a step of a call of SimpleProcessor::iterate
SimpleStep == simple_out' # simple_out /\ simple_out'.some

\* a step of a call of ChunksProcessor::iterate
ChunksStep ==
    \/ chunks_out' # chunks_out /\ chunks_out'.some
    \/ cpc' # cpc
    \/ <<sub_states, errors, task, task_slice, task_result>>'
          # <<sub_states, errors, task, task_slice, task_result>>

\* C19 as stated: no step of SimpleProcessor::iterate or
\* ChunksProcessor::iterate, whether the call succeeds or fails, changes the
\* generation it was given or the rule table; the generation a call returns
\* has the iteration of its input plus 1 and the rule table of its input.
\* Checked under SpecChunks.
C19_Original ==
    /\ [][SimpleStep =>
            /\ simple_lsystem' = simple_lsystem
            /\ lsystem_rules' = lsystem_rules]_vars
    /\ [][ChunksStep =>
            /\ chunks_lsystem' = chunks_lsystem
            /\ lsystem_rules' = lsystem_rules]_vars
    /\ []((simple_out.some /\ simple_out.val.ok) =>
            /\ simple_out.val.val.iteration = simple_lsystem.iteration + 1
            /\ simple_out.val.val.rules = simple_lsystem.rules
            /\ simple_lsystem.rules = lsystem_rules)
    /\ []((chunks_out.some /\ chunks_out.val.ok) =>
            /\ chunks_out.val.val.iteration = chunks_lsystem.iteration + 1
            /\ chunks_out.val.val.rules = chunks_lsystem.rules
            /\ chunks_lsystem.rules = lsystem_rules)

\* the n-th term of 1, 2, 3, 5, 8, 13, 21, 34, ...
RECURSIVE Fibonacci(_)
Fibonacci(n) == IF n = 0 THEN 1 ELSE IF n = 1 THEN 2
                ELSE Fibonacci(n - 1) + Fibonacci(n - 2)

\* C20: with the rules A -> AB, B -> A and the axiom "A", the generation n
\* held by either driver has iteration n and a state of the length of the
\* n-th term of 1, 2, 3, 5, 8, 13, 21, 34, ..., and so has every generation
\* SimpleProcessor::iterate or ChunksProcessor::iterate returns.  Checked
\* under SpecAlgae.
C20_Fibonacci ==
    /\ Len(simple_lsystem.state) = Fibonacci(simple_lsystem.iteration)
    /\ Len(chunks_lsystem.state) = Fibonacci(chunks_lsystem.iteration)
    /\ (simple_out.some /\ simple_out.val.ok) =>
          /\ simple_out.val.val.iteration = simple_lsystem.iteration + 1
          /\ Len(simple_out.val.val.state) = Fibonacci(simple_out.val.val.iteration)
    /\ (chunks_out.some /\ chunks_out.val.ok) =>
          /\ chunks_out.val.val.iteration = chunks_lsystem.iteration + 1
          /\ Len(chunks_out.val.val.state) = Fibonacci(chunks_out.val.val.iteration)

\* both processors have returned generation 7, of 34 symbols, rewritten by
\* ChunksProcessor from the five chunks of the 21 symbols of generation 6
C20_Witness ==
    /\ simple_out.some /\ simple_out.val.ok
    /\ chunks_out.some /\ chunks_out.val.ok
    /\ chunks_out.val.val.iteration = 7
    /\ Len(chunks_out.val.val.state) = 34
    /\ Len(simple_out.val.val.state) = 34
    /\ Len(completed) = 5

(***************************************************************************)
(* The claims about the worker thread, checked under SpecWorker.           *)
(***************************************************************************)
\* a step of the worker thread out of the match of worker_loop
HandlerStep ==
    /\ status = "running"
    /\ wpc = "handle"
    /\ (wpc' # wpc \/ tx' # tx \/ status' # status \/ lsystem' # lsystem)

\* C4 as stated: when processor.iterate returns an error on an Iterate
\* command, the worker replies with an Error event, keeps the generation it
\* held and goes on running.
C4_Original ==
    [][(HandlerStep /\ message_from_ui.val.type = "Iterate" /\ lsystem.some) =>
          \A r \in LProcessorIterate(processor, lsystem.val) :
              "err" \in DOMAIN r =>
                  /\ tx' = Append(tx, Error(r.err))
                  /\ lsystem' = lsystem
                  /\ status' = "running"]_vars

\* C5 as stated: as long as no Terminate command has been received, the
\* worker thread is running.
C5_Original ==
    (\A k \in 1 .. nrecv : sent[k].type # "Terminate") => status = "running"

\* C6 as stated: the commands leave the channel in the order they were sent,
\* the k-th event is sent while the k-th command is handled and has the type
\* expected for it or is an Error, and a command is taken from the channel
\* only after the reply to the command before it has been sent: a command
\* that is being handled has no event yet, and every command whose handling
\* has ended, however it ended, has exactly one.
C6_Original ==
    /\ nrecv <= Len(sent)
    /\ rx = SubSeq(sent, nrecv + 1, Len(sent))
    /\ message_from_ui.some => message_from_ui.val = sent[nrecv]
    /\ reply_to = [k \in 1 .. Len(tx) |-> k]
    /\ Len(tx) = IF status = "running" /\ wpc = "handle" THEN nrecv - 1 ELSE nrecv
    /\ \A k \in 1 .. Len(tx) :
          \/ same_type(tx[k], from_command(sent[k]))
          \/ same_type(tx[k], Error(<<>>))

\* C8: a Terminate command is answered by Terminated whether or not a
\* generation is loaded, the worker then stops, Terminated is the last event
\* on the channel and no command sent after the Terminate is taken from it.
C8_TerminateLast ==
    /\ \A k \in 1 .. Len(tx) : (tx[k] = Terminated) <=> (sent[k].type = "Terminate")
    /\ \A k \in 1 .. Len(tx) - 1 : tx[k] # Terminated
    /\ \A k \in 1 .. nrecv - 1 : sent[k].type # "Terminate"
    /\ (status = "terminated") <=> (tx # <<>> /\ tx[Len(tx)] = Terminated)
    /\ status = "terminated" => (Len(tx) = nrecv /\ sent[nrecv].type = "Terminate")

\* the worker has stopped on a Terminate received with nothing loaded, and
\* commands sent after it are left in the channel
C8_Witness ==
    /\ status = "terminated"
    /\ ~lsystem.some
    /\ Len(rx) >= 2
    /\ Len(tx) = 2

\* C9: with nothing loaded, the worker answers a ResetLSystem, Iterate or
\* Interpret command by the one event Error("no LSystem loaded"), stays
\* running with no generation, no axiom and no rules, and calls neither the
\* processor nor the interpreter.
C9_NothingLoaded ==
    [][(HandlerStep /\ ~lsystem.some
           /\ message_from_ui.val.type \in {"ResetLSystem", "Iterate", "Interpret"}) =>
          /\ axiom = None /\ rules = None
          /\ tx' = Append(tx, Error(<<"no LSystem loaded">>))
          /\ lsystem' = None /\ axiom' = None /\ rules' = None
          /\ status' = "running"
          /\ wpc' = "recv"
          /\ calls' = calls /\ calls.processor = 0 /\ calls.interpreter = 0]_vars

\* an Iterate and an Interpret received with nothing loaded have both been
\* answered by the Error event and the worker is back at try_recv, unloaded
C9_Witness ==
    /\ status = "running"
    /\ wpc = "recv"
    /\ ~lsystem.some
    /\ Len(tx) = 2
    /\ tx[1] = Error(<<"no LSystem loaded">>)
    /\ tx[2] = Error(<<"no LSystem loaded">>)
    /\ sent[1].type = "Iterate"
    /\ sent[2].type = "Interpret"

\* C10: a LoadLSystem(axiom, rules) command is handled in every state of the
\* running worker: the generation becomes the one of iteration 0 with the
\* given axiom and rules, these are remembered, and LoadingFinished is sent.
C10_Load ==
    /\ [](Handling("LoadLSystem") => ENABLED WorkerLoad)
    /\ [][(HandlerStep /\ message_from_ui.val.type = "LoadLSystem") =>
            /\ lsystem' = Some([rules |-> message_from_ui.val.rules,
                                iteration |-> 0,
                                state |-> message_from_ui.val.axiom])
            /\ axiom' = Some(message_from_ui.val.axiom)
            /\ rules' = Some(message_from_ui.val.rules)
            /\ tx' = Append(tx, LoadingFinished)
            /\ status' = "running"
            /\ wpc' = "recv"]_vars

\* a second LoadLSystem, of another axiom and other rules, has replaced a
\* generation that was at iteration 1
C10_Witness ==
    /\ Len(tx) = 3
    /\ tx[1] = LoadingFinished
    /\ tx[2] = IterationFinished(1)
    /\ tx[3] = LoadingFinished
    /\ lsystem.some
    /\ lsystem.val.iteration = 0
    /\ lsystem.val.state = sent[3].axiom
    /\ sent[3].axiom # sent[1].axiom
    /\ sent[3].rules # sent[1].rules

\* C23: the event sent in reply to a command has the type from_command
\* gives for the command or is an Error, and the reply to a LoadLSystem or a
\* Terminate command is never an Error.
C23_ReplyTypes ==
    \A k \in 1 .. Len(tx) :
        /\ reply_to[k] <= Len(sent)
        /\ \/ same_type(tx[k], from_command(sent[reply_to[k]]))
           \/ same_type(tx[k], Error(<<>>))
        /\ sent[reply_to[k]].type \in {"LoadLSystem", "Terminate"} =>
              ~same_type(tx[k], Error(<<>>))

\* an Iterate sent before anything is loaded and a failed Interpret have been
\* answered by Error, a LoadLSystem and a Terminate by their own events
C23_Witness ==
    /\ Len(tx) = 4
    /\ sent[1] = Iterate /\ tx[1].type = "Error"
    /\ sent[2].type = "LoadLSystem" /\ tx[2] = LoadingFinished
    /\ sent[3] = Interpret /\ tx[3].type = "Error"
    /\ sent[4] = Terminate /\ tx[4] = Terminated

\* the number of the most recent LoadLSystem among the commands received
LastLoad == CHOOSE k \in 1 .. nrecv :
                /\ sent[k].type = "LoadLSystem"
                /\ \A m \in k + 1 .. nrecv : sent[m].type # "LoadLSystem"

\* C11: with a generation loaded, a ResetLSystem command replaces it by the
\* generation of iteration 0 made of the axiom and rules of the most recent
\* LoadLSystem and is answered by ResettingFinised, the worker going on; and
\* the first IterationFinished that follows a ResettingFinised reports 1.
C11_Reset ==
    /\ [][(HandlerStep /\ message_from_ui.val.type = "ResetLSystem" /\ lsystem.some) =>
            /\ lsystem' = Some([rules |-> sent[LastLoad].rules,
                                iteration |-> 0,
                                state |-> sent[LastLoad].axiom])
            /\ tx' = Append(tx, ResettingFinised)
            /\ status' = "running"
            /\ wpc' = "recv"]_vars
    /\ [](\A k, j \in 1 .. Len(tx) :
            (/\ k < j
             /\ tx[k] = ResettingFinised
             /\ tx[j].type = "IterationFinished"
             /\ \A m \in k + 1 .. j - 1 : tx[m].type # "IterationFinished")
                => tx[j] = IterationFinished(1))

\* a generation that had reached iteration 1 has been reset and iterated
\* again, the Iterate after the reset reporting iteration 1
C11_Witness ==
    /\ Len(tx) = 4
    /\ tx[1] = LoadingFinished
    /\ tx[2] = IterationFinished(1)
    /\ tx[3] = ResettingFinised
    /\ tx[4] = IterationFinished(1)
    /\ lsystem.some
    /\ lsystem.val.state # sent[1].axiom

\* the number of the most recent command answered by LoadingFinished or
\* ResettingFinised, the commands that make a generation of iteration 0
LastStart == CHOOSE k \in 1 .. Len(tx) :
                 /\ tx[k] \in {LoadingFinished, ResettingFinised}
                 /\ \A m \in k + 1 .. Len(tx) :
                       tx[m] \notin {LoadingFinished, ResettingFinised}

\* the Iterate commands that succeeded since LastStart
IteratedSince ==
    {k \in LastStart + 1 .. Len(tx) :
        sent[k].type = "Iterate" /\ tx[k].type = "IterationFinished"}

\* C26: while a generation is loaded, its iteration is the number of Iterate
\* commands that succeeded since the most recent LoadLSystem or ResetLSystem,
\* and a successful Iterate sends IterationFinished(n) where n is the
\* iteration of the generation it leaves loaded, one more than the iteration
\* of the generation before it.
C26_Iteration ==
    /\ [](lsystem.some =>
            /\ \E k \in 1 .. Len(tx) : tx[k] \in {LoadingFinished, ResettingFinised}
            /\ lsystem.val.iteration = Cardinality(IteratedSince))
    /\ [][(HandlerStep /\ message_from_ui.val.type = "Iterate" /\ lsystem.some
            /\ \E r \in LProcessorIterate(processor, lsystem.val) : r.ok) =>
            /\ lsystem'.some
            /\ lsystem'.val.iteration = lsystem.val.iteration + 1
            /\ tx' = Append(tx, IterationFinished(lsystem'.val.iteration))]_vars
    /\ [](\A k \in 1 .. Len(tx) :
            tx[k].type = "IterationFinished" => sent[k].type = "Iterate")

\* an Iterate received before anything was loaded has failed and, after a
\* LoadLSystem, two Iterate commands have reported 1 and 2: the generation
\* is at iteration 2
C26_Witness ==
    /\ Len(tx) = 4
    /\ sent[1] = Iterate /\ tx[1].type = "Error"
    /\ tx[2] = LoadingFinished
    /\ tx[3] = IterationFinished(1)
    /\ tx[4] = IterationFinished(2)
    /\ lsystem.some
    /\ lsystem.val.iteration = 2
    /\ lsystem.val.state # sent[2].axiom

\* C25 as stated: every call of command_and_wait returns, whatever the
\* command and the state of the worker, and the response it returns is the
\* first event received since the call that has the type expected for the
\* command or is an Error.  Checked under SpecApp.
C25_Original ==
    /\ [](\A k \in 1 .. Len(app.returned) :
            \/ same_type(app.returned[k], from_command(sent[k]))
            \/ same_type(app.returned[k], Error(<<>>)))
    /\ (app.pc # "idle") ~> (app.pc = "idle")

(***************************************************************************)
(* The claim about the scripted viewer, checked under SpecScript.          *)
(***************************************************************************)
\* the number k of Iterate commands of the script
ScriptK == Len(sent) + Len(script) - 3

\* the i-th event is the i-th of LoadingFinished, IterationFinished(1), ...,
\* IterationFinished(k), InterpretationFinished(..), Terminated
ExpectedEvent(i, event) ==
    CASE i = 1 -> event = LoadingFinished
      [] i >= 2 /\ i <= ScriptK + 1 -> event = IterationFinished(i - 1)
      [] i = ScriptK + 2 -> event.type = "InterpretationFinished"
      [] i = ScriptK + 3 -> event = Terminated
      [] OTHER -> FALSE

\* the tags of the symbols of a generation, in state order, without the
\* symbols that have no rule and those tagged TurtleCommand::None
Tags(g) ==
    LET IsCommand(c) == c # TurtleNone
    IN SelectSeq([i \in 1 .. Len(g.state) |->
                     IF g.state[i] \in DOMAIN g.rules.rules
                     THEN g.rules.rules[g.state[i]].interpretation
                     ELSE TurtleNone],
                 IsCommand)

\* C21: what SimpleInterpreter::interpret returns for an Interpret command
\* is the tags of the symbols of the state, in order, leaving out the symbols
\* tagged TurtleCommand::None and the symbols with no rule, so no more
\* commands than the state has symbols; for the rules of
\* test::simple_interpreter and the axiom A, after one Iterate, it is
\* RotateBy(60), AdvanceBy(15), RotateBy(-60), AdvanceBy(10), RotateBy(-60),
\* AdvanceBy(15), RotateBy(60).
C21_Interpret ==
    /\ [][(HandlerStep /\ message_from_ui.val.type = "Interpret" /\ lsystem.some
            /\ Returns(SimpleInterpreterInterpret(lsystem.val))) =>
            /\ tx' = Append(tx, InterpretationFinished(Tags(lsystem.val)))
            /\ Len(Tags(lsystem.val)) <= Len(lsystem.val.state)
            /\ lsystem' = lsystem]_vars
    /\ []((/\ Len(tx) >= 3
           /\ sent[1] = LoadLSystem(<<"A">>, CurveRules)
           /\ tx[2] = IterationFinished(1)
           /\ sent[3] = Interpret) =>
              tx[3] = InterpretationFinished(
                          <<RotateBy(60), AdvanceBy(15), RotateBy(-60), AdvanceBy(10),
                            RotateBy(-60), AdvanceBy(15), RotateBy(60)>>))

\* the curve of test::simple_interpreter has been rewritten once and
\* interpreted into seven commands
C21_Witness ==
    /\ Len(tx) >= 3
    /\ sent[1] = LoadLSystem(<<"A">>, CurveRules)
    /\ tx[2] = IterationFinished(1)
    /\ tx[3].type = "InterpretationFinished"
    /\ Len(tx[3].commands) = 7
    /\ lsystem.val.state = <<"+", "B", "-", "A", "-", "B", "+">>

\* C7 as stated: when the viewer sends LoadLSystem, Iterate k times,
\* Interpret, Terminate, then once the worker has stopped the channel holds
\* exactly the k + 3 events LoadingFinished, IterationFinished(1), ...,
\* IterationFinished(k), InterpretationFinished(..), Terminated, and up to
\* then a prefix of them.  Checked under SpecScript.
C7_Original ==
    (\E load \in ScriptLoads, k \in 0 .. MaxK : sent \o script = Script(load, k)) =>
        /\ \A i \in 1 .. Len(tx) : ExpectedEvent(i, tx[i])
        /\ status # "running" => Len(tx) = ScriptK + 3
====
